---- MODULE Spec2Model ----
(***************************************************************************)
(* The Trac-wiki to MarkDown converter of script/wiki.py (WikiConverter),  *)
(* as called page after page by migrate_wiki of script/migrate.py, and    *)
(* the ticket loop of migrate_tickets of script/migrate.py.                *)
(*                                                                         *)
(* A text is a sequence of characters; a character is a one-character      *)
(* string.  The only exception is the backquote U+0060, which cannot be    *)
(* written inside a TLA+ string literal and is written BT.                 *)
(* An optional value (Python's None or a value) is a sequence of length 0  *)
(* or 1: None is <<>>, the value v is <<v>>.                                *)
(***************************************************************************)
EXTENDS Naturals, Sequences, FiniteSets, TLC

VARIABLES pc, content, text, mask_map, prefixes, calls

\* migrate_tickets of script/migrate.py: its position, the tickets of the
\* Trac environment, the command line flags, the tickets the loop has still
\* to visit, the loop's variables, the issues of the GitHub repository, the
\* answer of GitHub to the last create_issue and the exception that left the
\* function
VARIABLES mig_pc, trac_tickets, flags, todo, ticket_number, ticket_count,
          issues, response, error

wvars == <<pc, content, text, mask_map, prefixes, calls>>

mvars == <<mig_pc, trac_tickets, flags, todo, ticket_number, ticket_count,
           issues, response, error>>

vars == <<wvars, mvars>>

-----------------------------------------------------------------------------
(* Characters and the character classes the patterns of wiki.py use.       *)

BT == "BACKQUOTE"
BS == "\\"
NL == "\n"
QT == "'"
DQ == "\""

Lower == {"a","b","c","d","e","f","g","h","i","j","k","l","m",
          "n","o","p","q","r","s","t","u","v","w","x","y","z"}
Upper == {"A","B","C","D","E","F","G","H","I","J","K","L","M",
          "N","O","P","Q","R","S","T","U","V","W","X","Y","Z"}
Digit == {"0","1","2","3","4","5","6","7","8","9"}
\* \w and \s of a re.UNICODE pattern, on the characters of the model
WordChar  == Lower \cup Upper \cup Digit \cup {"_"}
SpaceChar == {" ", "\n", "\t", "\r"}

None == <<>>
Some(v) == <<v>>

NoMatch == [ok |-> FALSE]

\* the character at index i, or "" outside the text (no character is "")
At(t, i) == IF i >= 1 /\ i <= Len(t) THEN t[i] ELSE ""

\* t[a..b-1]
Slice(t, a, b) == SubSeq(t, a, b - 1)

\* TRUE iff the word w stands in t at index p
StartsWith(t, p, w) ==
    /\ p + Len(w) - 1 <= Len(t)
    /\ \A i \in 1..Len(w) : t[p + i - 1] = w[i]

\* the least and the greatest element of a non-empty set of numbers
MinOf(S) == CHOOSE x \in S : \A y \in S : x <= y
MaxOf(S) == CHOOSE x \in S : \A y \in S : x >= y

\* the first index >= p whose character is not in class C (Len(t)+1 if none):
\* the end of a greedy run C* started at p
RunEnd(t, p, C) ==
    LET S == {i \in p..Len(t) : t[i] \notin C}
    IN  IF S = {} THEN (IF p > Len(t) THEN p ELSE Len(t) + 1) ELSE MinOf(S)

\* the first of the indices S at which a pattern matches, 0 if there is none:
\* where re.sub finds its next match
NextMatch(S) == IF S = {} THEN 0 ELSE MinOf(S)

\* '^' and '$' of a re.MULTILINE pattern
AtLineStart(t, p) == p = 1 \/ At(t, p - 1) = NL
AtLineEnd(t, p) == p = Len(t) + 1 \/ At(t, p) = NL

\* n copies of the character c
Repeat(c, n) == [i \in 1..n |-> c]

-----------------------------------------------------------------------------
(* hash(text): the SHA-256 hex digest of the text.  SHA-256 is modelled as *)
(* what the code relies on: a deterministic map from texts to non-empty    *)
(* strings of lower-case hex digits under which different texts get        *)
(* different digests.  The digest of a text is "5" followed by two hex     *)
(* digits for each of its characters (the character's index in CharTable,  *)
(* never 00); the digest of a digest followed by '_', which is what        *)
(* _callback_mask_code re-hashes, is that digest followed by "00", so that  *)
(* digests of digests stay short.                                          *)

HexDigits == <<"0","1","2","3","4","5","6","7","8","9","a","b","c","d","e","f">>

CharTable ==
    <<"_", "0","1","2","3","4","5","6","7","8","9",
      "a","b","c","d","e","f","g","h","i","j","k","l","m",
      "n","o","p","q","r","s","t","u","v","w","x","y","z",
      "A","B","C","D","E","F","G","H","I","J","K","L","M",
      "N","O","P","Q","R","S","T","U","V","W","X","Y","Z",
      " ", "\n", "\t", "\r", "\\", "'", "\"", BT, "{", "}", "#", "!", "%",
      "[", "]", "(", ")", "|", ":", "=", "-", "/", "*", ".">>

CharCode(c) == CHOOSE i \in 1..Len(CharTable) : CharTable[i] = c

HexOf(t) ==
    [i \in 1..(2 * Len(t)) |->
        IF i % 2 = 1 THEN HexDigits[(CharCode(t[(i + 1) \div 2]) \div 16) + 1]
        ELSE HexDigits[(CharCode(t[i \div 2]) % 16) + 1]]

\* d has the form of a digest
IsDigest(d) ==
    /\ Len(d) % 2 = 1
    /\ d[1] = "5"
    /\ \A i \in 2..Len(d) : \E j \in 1..16 : HexDigits[j] = d[i]

hash(t) ==
    IF t # <<>> /\ t[Len(t)] = "_" /\ IsDigest(SubSeq(t, 1, Len(t) - 1))
    THEN SubSeq(t, 1, Len(t) - 1) \o <<"0", "0">>
    ELSE <<"5">> \o HexOf(t)

-----------------------------------------------------------------------------
(* Masking Stage.                                                          *)

\* the placeholder '%%%%%%%%{<hash>}%%%%%%%%' of a code id
Placeholder(id) == Repeat("%", 8) \o <<"{">> \o id \o <<"}">> \o Repeat("%", 8)

\* the first index e >= p where '}}}' stands, its first brace not preceded by
\* a backslash; 0 if there is none: the end of the lazy (?P<code>.*?)
FindCodeblockClose(t, p) ==
    LET S == {e \in p..Len(t) :
                StartsWith(t, e, <<"}", "}", "}">>) /\ At(t, e - 1) # BS}
    IN  IF S = {} THEN 0 ELSE MinOf(S)

\* the optional group ([\r\n\s]*\#\!(?P<shebang>[ \w\=\"\']+)$) tried at p
CodeblockShebang(t, p) ==
    LET w == RunEnd(t, p, SpaceChar)
        r == RunEnd(t, w + 2, WordChar \cup {" ", "=", DQ, QT})
    IN  IF /\ StartsWith(t, w, <<"#", "!">>)
           /\ r > w + 2
           /\ AtLineEnd(t, r)
        THEN [ok |-> TRUE, end |-> r, shebang |-> Slice(t, w + 2, r)]
        ELSE NoMatch

\* _re_codeblock matched at index s: three '{' (none after a backslash), the
\* optional shebang line, the shortest code up to three '}'
_re_codeblock(t, s) ==
    IF ~(StartsWith(t, s, <<"{", "{", "{">>) /\ At(t, s - 1) # BS) THEN NoMatch
    ELSE
      LET g  == CodeblockShebang(t, s + 3)
          e1 == IF g.ok THEN FindCodeblockClose(t, g.end) ELSE 0
          e2 == FindCodeblockClose(t, s + 3)
      IN  IF g.ok /\ e1 # 0
          THEN [ok |-> TRUE, end |-> e1 + 3, shebang |-> Some(g.shebang),
                code |-> Slice(t, g.end, e1)]
          ELSE IF e2 # 0
          THEN [ok |-> TRUE, end |-> e2 + 3, shebang |-> None,
                code |-> Slice(t, s + 3, e2)]
          ELSE NoMatch

\* the last index e in lo..hi holding a backquote not preceded by a backslash
\* (0 if none): where the greedy (?P<code>.+) gives back to
LastBacktick(t, lo, hi) ==
    LET S == {e \in lo..hi : t[e] = BT /\ At(t, e - 1) # BS}
    IN  IF S = {} THEN 0 ELSE MaxOf(S)

\* _re_code matched at index s: a backquote, the longest code on the line
\* ('.' does not match a newline), a closing backquote
_re_code(t, s) ==
    IF ~(At(t, s) = BT /\ At(t, s - 1) # BS) THEN NoMatch
    ELSE
      LET eol == RunEnd(t, s + 1, {t[i] : i \in 1..Len(t)} \ {NL})
          e   == LastBacktick(t, s + 2, eol - 1)
      IN  IF e # 0
          THEN [ok |-> TRUE, end |-> e + 1, shebang |-> None,
                code |-> Slice(t, s + 1, e)]
          ELSE NoMatch

\* FreeCodeId without its loop: the hash of the code, free or not
FreeCodeId_NoRehash(code_id, mm) == code_id

\* the while loop of _callback_mask_code: re-hash until the id is free
RECURSIVE FreeCodeId(_, _)
FreeCodeId(code_id, mm) ==
    IF code_id \in DOMAIN mm THEN FreeCodeId(hash(code_id \o <<"_">>), mm)
    ELSE code_id

\* _callback_mask_code: store the code under a free id, return the placeholder
_callback_mask_code(m, mm) ==
    LET code_id == FreeCodeId(hash(m.code), mm)
    IN  [repl |-> Placeholder(code_id),
         \* self.mask_map[code_id] = {...}: the assignment takes the key over
         map  |-> (code_id :> [code |-> m.code, shebang |-> m.shebang]) @@ mm]

\* re.sub(_callback_mask_code) of _re_codeblock over t from index pos
RECURSIVE SubCodeblock(_, _, _, _)
SubCodeblock(t, pos, out, mm) ==
    LET p == NextMatch({i \in pos..Len(t) : _re_codeblock(t, i).ok})
        m == _re_codeblock(t, p)
        r == _callback_mask_code(m, mm)
    IN  IF p = 0 THEN [text |-> out \o Slice(t, pos, Len(t) + 1), map |-> mm]
        ELSE SubCodeblock(t, m.end, out \o Slice(t, pos, p) \o r.repl, r.map)

\* re.sub(_callback_mask_code) of _re_code over t from index pos
RECURSIVE SubCode(_, _, _, _)
SubCode(t, pos, out, mm) ==
    LET p == NextMatch({i \in pos..Len(t) : _re_code(t, i).ok})
        m == _re_code(t, p)
        r == _callback_mask_code(m, mm)
    IN  IF p = 0 THEN [text |-> out \o Slice(t, pos, Len(t) + 1), map |-> mm]
        ELSE SubCode(t, m.end, out \o Slice(t, pos, p) \o r.repl, r.map)

\* the two passes in the other order: inline spans first, then fenced blocks
_mask_code_InlineFirst(t, mm) ==
    LET c == SubCode(t, 1, <<>>, mm)
    IN  SubCodeblock(c.text, 1, <<>>, c.map)

\* _mask_code: fenced blocks first, then inline spans
_mask_code(t, mm) ==
    LET b == SubCodeblock(t, 1, <<>>, mm)
    IN  SubCode(b.text, 1, <<>>, b.map)

-----------------------------------------------------------------------------
(* Unmasking Stage.                                                        *)

HexChar == Digit \cup {"a","b","c","d","e","f"} \cup {"A","B","C","D","E","F"}

\* _re_code_placeholder matched at index s (re.IGNORECASE: the hex digits of
\* either case)
_re_code_placeholder(t, s) ==
    LET open == Repeat("%", 8) \o <<"{">>
        h    == s + 9
        e    == RunEnd(t, h, HexChar)
    IN  IF /\ StartsWith(t, s, open)
           /\ e > h
           /\ StartsWith(t, e, <<"}">> \o Repeat("%", 8))
        THEN [ok |-> TRUE, end |-> e + 9, hash |-> Slice(t, h, e)]
        ELSE NoMatch

\* _callback_convert_code: an id the table does not hold reaches
\* match.group('0'), and a pattern has no group named '0': IndexError
_callback_convert_code(m, mm) ==
    IF m.hash \notin DOMAIN mm
    THEN [raised |-> "IndexError", repl |-> <<>>]
    ELSE LET code == mm[m.hash]
             fence == <<BT, BT, BT>>
         IN  IF code.shebang = None
             THEN [raised |-> "", repl |-> fence \o code.code \o fence]
             ELSE [raised |-> "",
                   repl |-> fence \o code.shebang[1] \o <<NL>> \o code.code
                            \o <<NL>> \o fence]

\* re.sub(_callback_convert_code) of _re_code_placeholder over t from pos; an
\* exception of the callback ends the substitution
RECURSIVE SubCodePlaceholder(_, _, _, _)
SubCodePlaceholder(t, pos, out, mm) ==
    LET p == NextMatch({i \in pos..Len(t) : _re_code_placeholder(t, i).ok})
        m == _re_code_placeholder(t, p)
        r == _callback_convert_code(m, mm)
    IN  IF p = 0 THEN [raised |-> "", text |-> out \o Slice(t, pos, Len(t) + 1)]
        ELSE IF r.raised # "" THEN [raised |-> r.raised, text |-> <<>>]
        ELSE SubCodePlaceholder(t, m.end, out \o Slice(t, pos, p) \o r.repl, mm)

_convert_code(t, mm) == SubCodePlaceholder(t, 1, <<>>, mm)

-----------------------------------------------------------------------------
(* Breakline Stage.                                                        *)

\* a marker pattern that takes one backslash for a break marker
BreakMarkerLen_SingleBackslash(t, p) ==
    IF StartsWith(t, p, <<BS>>) THEN 1 ELSE 0

\* (\\{2}|\[{2}br\]{2}) at index p, re.IGNORECASE
BreakMarkerLen(t, p) ==
    IF StartsWith(t, p, <<BS, BS>>) THEN 2
    ELSE IF /\ StartsWith(t, p, <<"[", "[">>)
            /\ At(t, p + 2) \in {"b", "B"}
            /\ At(t, p + 3) \in {"r", "R"}
            /\ StartsWith(t, p + 4, <<"]", "]">>)
         THEN 6
         ELSE 0

\* _re_breaklines matched at index s: (?:[^\!]|^) first consumes one character
\* other than '!' before the marker, and only then tries the line start
_re_breaklines(t, s) ==
    IF At(t, s) # "!" /\ s <= Len(t) /\ BreakMarkerLen(t, s + 1) > 0
    THEN [ok |-> TRUE, end |-> s + 1 + BreakMarkerLen(t, s + 1)]
    ELSE IF AtLineStart(t, s) /\ BreakMarkerLen(t, s) > 0
    THEN [ok |-> TRUE, end |-> s + BreakMarkerLen(t, s)]
    ELSE NoMatch

\* re.sub('\n\n') of _re_breaklines over t from index pos
RECURSIVE SubBreaklines(_, _, _)
SubBreaklines(t, pos, out) ==
    LET p == NextMatch({i \in pos..Len(t) : _re_breaklines(t, i).ok})
        m == _re_breaklines(t, p)
    IN  IF p = 0 THEN out \o Slice(t, pos, Len(t) + 1)
        ELSE SubBreaklines(t, m.end, out \o Slice(t, pos, p) \o <<NL, NL>>)

_convert_breaklines(t) == SubBreaklines(t, 1, <<>>)

-----------------------------------------------------------------------------
(* Style Stage.                                                            *)

\* the first index e >= p where n quotes stand (0 if none): the end of the
\* lazy (?P<text>.*?) before the back-reference (?P=prefix)
FindQuotes(t, p, n) ==
    LET S == {e \in p..Len(t) : StartsWith(t, e, Repeat(QT, n))}
    IN  IF S = {} THEN 0 ELSE MinOf(S)

\* the lengths (?:(?:(?<!\\)\'){2,3}){1,2} takes, in the order the greedy
\* repetitions try them: 3+3, 3+2, 3, 2+3, 2+2, 2
PrefixLengths == <<6, 5, 3, 5, 4, 2>>

\* the first of PrefixLengths from index i on that the run of cnt quotes at s
\* can supply and that is found again behind the text
RECURSIVE TextStyleTry(_, _, _, _)
TextStyleTry(t, s, cnt, i) ==
    IF i > Len(PrefixLengths) THEN NoMatch
    ELSE LET n == PrefixLengths[i]
             e == IF n <= cnt THEN FindQuotes(t, s + n, n) ELSE 0
         IN  IF e # 0
             THEN [ok |-> TRUE, end |-> e + n, prefix_len |-> n,
                   text |-> Slice(t, s + n, e)]
             ELSE TextStyleTry(t, s, cnt, i + 1)

\* _re_text_style matched at index s
_re_text_style(t, s) ==
    IF ~(At(t, s) = QT /\ At(t, s - 1) # BS) THEN NoMatch
    ELSE TextStyleTry(t, s, RunEnd(t, s, {QT}) - s, 1)

\* _callback_text_style: no branch for a prefix of 4 or 6 quotes, the method
\* returns None there and re.sub puts nothing for None
_callback_text_style(m) ==
    IF m.prefix_len = 2 THEN <<"*">> \o m.text \o <<"*">>
    ELSE IF m.prefix_len = 3 THEN <<"*", "*">> \o m.text \o <<"*", "*">>
    ELSE IF m.prefix_len = 5
    THEN <<"*", "*", "_">> \o m.text \o <<"_", "*", "*">>
    ELSE <<>>

\* re.sub(_callback_text_style) of _re_text_style over t from index pos
RECURSIVE SubTextStyle(_, _, _)
SubTextStyle(t, pos, out) ==
    LET p == NextMatch({i \in pos..Len(t) : _re_text_style(t, i).ok})
        m == _re_text_style(t, p)
    IN  IF p = 0 THEN out \o Slice(t, pos, Len(t) + 1)
        ELSE SubTextStyle(t, m.end,
                out \o Slice(t, pos, p) \o _callback_text_style(m))

_convert_text_style(t) == SubTextStyle(t, 1, <<>>)

-----------------------------------------------------------------------------
(* Heading Stage.                                                          *)

\* the largest index k in lo..hi at which '$' matches (0 if none): what the
\* greedy trailing \s* gives back to
LastLineEnd(t, lo, hi) ==
    LET S == {k \in lo..hi : AtLineEnd(t, k)}
    IN  IF S = {} THEN 0 ELSE MaxOf(S)

\* _re_headlines matched at index s: at a line start the longest run of '=',
\* \s*, the title [^=]+ (greedy: up to the next '=', trailing whitespace and
\* newlines included), the same run of '=' again, \s* and a line end
_re_headlines(t, s) ==
    LET e     == RunEnd(t, s, {"="})
        level == e - s
        w     == RunEnd(t, e, SpaceChar)
        q     == RunEnd(t, w, {t[i] : i \in 1..Len(t)} \ {"="})
        \* \s* gives one character back when it left the title nothing
        ts    == IF q > w THEN w ELSE w - 1
        c     == q + level
        k     == LastLineEnd(t, c, RunEnd(t, c, SpaceChar))
    IN  IF /\ AtLineStart(t, s)
           /\ level >= 1
           /\ ts >= e
           /\ StartsWith(t, q, Repeat("=", level))
           /\ k # 0
        THEN [ok |-> TRUE, end |-> k, level |-> level, title |-> Slice(t, ts, q)]
        ELSE NoMatch

\* _callback_headlines
_callback_headlines(m) ==
    IF m.level = 1
    THEN m.title \o <<NL>> \o Repeat("=", Len(m.title))
    ELSE IF m.level = 2
    THEN m.title \o <<NL>> \o Repeat("-", Len(m.title))
    ELSE Repeat("#", m.level) \o <<" ">> \o m.title

\* re.sub(_callback_headlines) of _re_headlines over t from index pos
RECURSIVE SubHeadlines(_, _, _)
SubHeadlines(t, pos, out) ==
    LET p == NextMatch({i \in pos..Len(t) : _re_headlines(t, i).ok})
        m == _re_headlines(t, p)
    IN  IF p = 0 THEN out \o Slice(t, pos, Len(t) + 1)
        ELSE SubHeadlines(t, m.end,
                out \o Slice(t, pos, p) \o _callback_headlines(m))

_convert_headlines(t) == SubHeadlines(t, 1, <<>>)

-----------------------------------------------------------------------------
(* Link Stage: inline links.                                               *)

\* (?P<linktype>wiki|ticket|report|changeset|source), in the order tried
LinkTypes ==
    << <<"w","i","k","i">>,
       <<"t","i","c","k","e","t">>,
       <<"r","e","p","o","r","t">>,
       <<"c","h","a","n","g","e","s","e","t">>,
       <<"s","o","u","r","c","e">> >>

TargetClass    == Lower \cup Upper \cup Digit \cup {"-", "_"}
TypedNameClass == Lower \cup Upper \cup Digit \cup {"-", "_", "#", "/"}
SegHeadClass   == Upper \cup {"#"}
SegTailClass   == Lower \cup Digit \cup {"-", "_", "#", "/"}

\* str.format of a group's value: None prints as 'None'
FormatOpt(v) == IF v = None THEN <<"N","o","n","e">> ELSE v[1]

\* dict.get(key, default) on a dict modelled as a function
DictGet(d, key, default) == IF key \in DOMAIN d THEN d[key] ELSE default

\* (?:[A-Z#][a-z0-9\-_#\/]+){2,} from index p with count segments matched: the
\* end of the first way the backtracking matcher finds, 0 if there is none.
\* A segment is tried with its tail [a-z0-9\-_#\/]+ as long as possible, then
\* shorter; the repetition stops after count >= 2 segments where (with an
\* opening double quote) the closing quote stands.  CamelTry tries the
\* segments that start at p and end before r, r-1, ..., p+2.
RECURSIVE CamelEnd(_, _, _, _), CamelTry(_, _, _, _, _)
CamelEnd(t, p, count, quoted) ==
    LET more == IF At(t, p) \in SegHeadClass
                THEN CamelTry(t, p, RunEnd(t, p + 1, SegTailClass), count, quoted)
                ELSE 0
    IN  IF more # 0 THEN more
        ELSE IF count >= 2 /\ (~quoted \/ At(t, p) = DQ) THEN p
        ELSE 0

CamelTry(t, p, r, count, quoted) ==
    IF r < p + 2 THEN 0
    ELSE LET e == CamelEnd(t, r, count + 1, quoted)
         IN  IF e # 0 THEN e ELSE CamelTry(t, p, r - 1, count, quoted)

\* the linktype at index p: its index in LinkTypes, 0 if none stands there
LinkTypeAt(t, p) ==
    IF \E i \in 1..Len(LinkTypes) : StartsWith(t, p, LinkTypes[i] \o <<":">>)
    THEN CHOOSE i \in 1..Len(LinkTypes) : StartsWith(t, p, LinkTypes[i] \o <<":">>)
    ELSE 0

\* the pattern behind the optional target, tried at index p: with the
\* linktype, and if that fails without it (the CamelCase name)
InlineAfterTarget(t, p, target) ==
    LET lt  == LinkTypeAt(t, p)
        p2  == IF lt = 0 THEN p ELSE p + Len(LinkTypes[lt]) + 1
        \* typed, (?P<quoting>\"?) taken
        rq  == RunEnd(t, p2 + 1, TypedNameClass)
        \* typed, quoting empty
        rn  == RunEnd(t, p2, TypedNameClass)
        \* untyped
        cq  == IF At(t, p) = DQ THEN CamelEnd(t, p + 1, 0, TRUE) ELSE 0
        cn  == CamelEnd(t, p, 0, FALSE)
        G(linktype, quoting, name) ==
            [target |-> target, linktype |-> linktype, quoting |-> quoting,
             name |-> Some(name)]
    IN  IF lt # 0 /\ At(t, p2) = DQ /\ rq > p2 + 1 /\ At(t, rq) = DQ
        THEN [ok |-> TRUE, end |-> rq + 1,
              groups |-> G(Some(LinkTypes[lt]), <<DQ>>, Slice(t, p2 + 1, rq))]
        ELSE IF lt # 0 /\ rn > p2
        THEN [ok |-> TRUE, end |-> rn,
              groups |-> G(Some(LinkTypes[lt]), <<>>, Slice(t, p2, rn))]
        ELSE IF cq # 0
        THEN [ok |-> TRUE, end |-> cq + 1,
              groups |-> G(None, <<DQ>>, Slice(t, p + 1, cq))]
        ELSE IF cn # 0
        THEN [ok |-> TRUE, end |-> cn,
              groups |-> G(None, <<>>, Slice(t, p, cn))]
        ELSE NoMatch

\* _re_inline_links matched at index s: not behind '!', '(' or '['; the lazy
\* optional target (?:(?P<target>[a-zA-Z0-9\-_]+):)?? is first left out
_re_inline_links(t, s) ==
    IF At(t, s - 1) \in {"!", "(", "["} THEN NoMatch
    ELSE LET m == InlineAfterTarget(t, s, None)
             r == RunEnd(t, s, TargetClass)
         IN  IF m.ok THEN m
             ELSE IF r > s /\ At(t, r) = ":"
             THEN InlineAfterTarget(t, r + 1, Some(Slice(t, s, r)))
             ELSE NoMatch

\* _callback_inline_links: the pattern has no group 'escape' and no group
\* 'type', so groupdict() has neither key
_callback_inline_links(m, pfx) ==
    LET groups == m.groups
    IN  IF "escape" \in DOMAIN groups /\ groups["escape"] # None
        THEN Slice(m.whole, Len(groups["escape"][1]) + 1, Len(m.whole) + 1)
        ELSE (IF groups.target = None THEN <<>>
              ELSE DictGet(pfx, groups.target[1], <<>>))
             \o (IF "type" \in DOMAIN groups THEN FormatOpt(groups["type"])
                 ELSE <<>>)
             \o <<"/">>
             \o FormatOpt(groups.name)

\* re.sub(_callback_inline_links) of _re_inline_links over t from index pos
RECURSIVE SubInlineLinks(_, _, _, _)
SubInlineLinks(t, pos, out, pfx) ==
    LET p == NextMatch({i \in pos..Len(t) : _re_inline_links(t, i).ok})
        m == _re_inline_links(t, p)
    IN  IF p = 0 THEN out \o Slice(t, pos, Len(t) + 1)
        ELSE SubInlineLinks(t, m.end,
                out \o Slice(t, pos, p)
                    \o _callback_inline_links(
                          m @@ [whole |-> Slice(t, p, m.end)], pfx),
                pfx)

_convert_inline_links(t, pfx) == SubInlineLinks(t, 1, <<>>, pfx)

-----------------------------------------------------------------------------
(* Link Stage: marked links.                                               *)

\* str.lower() on the letters
LowerOf(c) ==
    LET up == <<"A","B","C","D","E","F","G","H","I","J","K","L","M",
                "N","O","P","Q","R","S","T","U","V","W","X","Y","Z">>
        lo == <<"a","b","c","d","e","f","g","h","i","j","k","l","m",
                "n","o","p","q","r","s","t","u","v","w","x","y","z">>
    IN  IF c \in Upper THEN lo[CHOOSE i \in 1..26 : up[i] = c] ELSE c

ToLower(t) == [i \in 1..Len(t) |-> LowerOf(t[i])]

\* the characters [^ |\[\]] of the text t
LinkClass(t) == {t[i] : i \in 1..Len(t)} \ {" ", "|", "[", "]"}

\* (?:[ |](?P<name>[\s\w]+?))?\]{1,2} at index p: the lazy name runs to the
\* first ']', and one or two ']' are taken
MarkedTail(t, p) ==
    LET q == RunEnd(t, p + 1, SpaceChar \cup WordChar)
        Close(i) == IF At(t, i + 1) = "]" THEN i + 2 ELSE i + 1
    IN  IF At(t, p) \in {" ", "|"} /\ q > p + 1 /\ At(t, q) = "]"
        THEN [ok |-> TRUE, end |-> Close(q), name |-> Some(Slice(t, p + 1, q))]
        ELSE IF At(t, p) = "]"
        THEN [ok |-> TRUE, end |-> Close(p), name |-> None]
        ELSE NoMatch

\* _re_marked_links matched at index s.  The look-ahead (?=[^\!]|^) looks at
\* the '[' itself and always holds.  One or two '[', then the macro form
\* macro(link) if it leads to a match, else the link alone
_re_marked_links(t, s) ==
    IF At(t, s) # "[" THEN NoMatch
    ELSE
      LET a  == IF At(t, s + 1) = "[" THEN s + 2 ELSE s + 1
          \* with the macro: \w+ \( link \)
          w  == RunEnd(t, a, WordChar)
          bm == RunEnd(t, w + 1, LinkClass(t))
          tm == MarkedTail(t, bm)
          \* without
          b  == RunEnd(t, a, LinkClass(t))
          tn == MarkedTail(t, b)
      IN  IF /\ w > a /\ At(t, w) = "("
             /\ bm - 1 > w + 1 /\ At(t, bm - 1) = ")"
             /\ tm.ok
          THEN [ok |-> TRUE, end |-> tm.end,
                groups |-> [macro |-> Some(Slice(t, a, w)),
                            link  |-> Some(Slice(t, w + 1, bm - 1)),
                            name  |-> tm.name]]
          ELSE IF b > a /\ tn.ok
          THEN [ok |-> TRUE, end |-> tn.end,
                groups |-> [macro |-> None,
                            link  |-> Some(Slice(t, a, b)),
                            name  |-> tn.name]]
          ELSE NoMatch

\* _callback_marked_links: groupdict() holds every named group of the pattern
\* (None for one that did not take part), so 'name' is always a key
_callback_marked_links(m, pfx) ==
    LET groups == m.groups
    IN  IF "macro" \in DOMAIN groups /\ groups.macro # None
        THEN IF ToLower(groups.macro[1]) = <<"i","m","a","g","e">>
             THEN <<"!", "[">>
                  \o FormatOpt(DictGet(groups, "name", Some(<<"i","m","a","g","e">>)))
                  \o <<"]", "(">> \o groups.link[1] \o <<")">>
             ELSE m.whole
        ELSE IF "name" \notin DOMAIN groups
        THEN _convert_inline_links(groups.link[1], pfx)
        ELSE <<"[">> \o FormatOpt(DictGet(groups, "name", groups.link))
             \o <<"]", "(">> \o _convert_inline_links(groups.link[1], pfx)
             \o <<")">>

\* re.sub(_callback_marked_links) of _re_marked_links over t from index pos
RECURSIVE SubMarkedLinks(_, _, _, _)
SubMarkedLinks(t, pos, out, pfx) ==
    LET p == NextMatch({i \in pos..Len(t) : _re_marked_links(t, i).ok})
        m == _re_marked_links(t, p)
    IN  IF p = 0 THEN out \o Slice(t, pos, Len(t) + 1)
        ELSE SubMarkedLinks(t, m.end,
                out \o Slice(t, pos, p)
                    \o _callback_marked_links(
                          m @@ [whole |-> Slice(t, p, m.end)], pfx),
                pfx)

_convert_marked_links(t, pfx) == SubMarkedLinks(t, 1, <<>>, pfx)

-----------------------------------------------------------------------------
(* The documents handed to convert(): up to MaxFrags fragments of wiki     *)
(* markup, one after the other.                                            *)

MaxFrags == 2
MaxCalls == 2

Frags == {
    \* plain text
      <<"x">>,
      <<" ">>,
      <<"\n">>,
    \* the escape markers
      <<"!">>,
      <<"\\">>,
    \* code spans and their delimiters
      <<BT>>,
      <<BT,"x",BT>>,
      <<"{","{","{","x","}","}","}">>,
      <<"{","{","{","#","!","p","y","\n","x","}","}","}">>,
    \* placeholder-shaped text: the id of the code 'x', and an id no code has
      <<"%","%","%","%","%","%","%","%","{","5","2","3","}","%","%","%","%","%","%","%","%">>,
      <<"%","%","%","%","%","%","%","%","{","0","}","%","%","%","%","%","%","%","%">>,
    \* break markers
      <<"\\","\\">>,
      <<"[","[","b","r","]","]">>,
    \* inline links
      <<"A","b","C","d">>,
      <<"o",":","A","b","C","d">>,
      <<"t","i","c","k","e","t",":","1">>,
    \* marked links
      <<"[","A","b","C","d","]">>,
      <<"[","A","b","C","d"," ","x","]">>,
      <<"[","[","I","m","a","g","e","(","x",")","]","]">>,
      <<"[","[","T","o","c","(","x",")","]","]">>,
    \* quote runs of 2, 3, 4, 5 and 6
      <<"'","'","x","'","'">>,
      <<"'","'","'","x","'","'","'">>,
      <<"'","'","'","'","x","'","'","'","'">>,
      <<"'","'","'","'","'","x","'","'","'","'","'">>,
      <<"'","'","'","'","'","'","x","'","'","'","'","'","'">>,
    \* headings of level 1, 2 and 3
      <<"="," ","T"," ","=">>,
      <<"=","="," ","T"," ","=","=">>,
      <<"=","=","="," ","T"," ","=","=","=">>
    }

RECURSIVE DocsOf(_)
DocsOf(n) ==
    IF n = 0 THEN {<<>>}
    ELSE {d \o f : d \in DocsOf(n - 1), f \in Frags}

Docs == UNION {DocsOf(n) : n \in 0..MaxFrags}

\* the prefix maps of the configuration: none, and one other Trac 'o'
PrefixMaps == {<<>>, (<<"o">> :> <<"u", ":", "/">>)}

-----------------------------------------------------------------------------
(* WikiConverter and the loop of migrate_wiki over the wiki pages.         *)

\* do_migrate has not called migrate_tickets (--no-tickets)
TicketsIdle ==
    /\ mig_pc = "off"
    /\ trac_tickets = {}
    /\ flags = [force |-> FALSE, continue_mode |-> FALSE]
    /\ todo = <<>>
    /\ ticket_number = 0
    /\ ticket_count = 0
    /\ issues = <<>>
    /\ response = ""
    /\ error = ""

\* WikiConverter.__init__
Init ==
    /\ pc = "idle"
    /\ content = <<>>
    /\ text = <<>>
    /\ mask_map = <<>>
    /\ prefixes \in PrefixMaps
    /\ calls = 0
    /\ TicketsIdle

\* migrate_wiki fetches a page and calls converter.convert(content)
Convert(doc) ==
    /\ pc = "idle"
    /\ calls < MaxCalls
    /\ content' = doc
    /\ text' = doc
    /\ calls' = calls + 1
    /\ pc' = "mask_code"
    /\ UNCHANGED <<mask_map, prefixes>>
    /\ UNCHANGED mvars

\* text = self._mask_code(text)
MaskCode ==
    /\ pc = "mask_code"
    /\ LET r == _mask_code(text, mask_map)
       IN  /\ text' = r.text
           /\ mask_map' = r.map
    /\ pc' = "marked_links"
    /\ UNCHANGED <<content, prefixes, calls>>
    /\ UNCHANGED mvars

\* text = self._convert_marked_links(text)
ConvertMarkedLinks ==
    /\ pc = "marked_links"
    /\ text' = _convert_marked_links(text, prefixes)
    /\ pc' = "inline_links"
    /\ UNCHANGED <<content, mask_map, prefixes, calls>>
    /\ UNCHANGED mvars

\* text = self._convert_inline_links(text)
ConvertInlineLinks ==
    /\ pc = "inline_links"
    /\ text' = _convert_inline_links(text, prefixes)
    /\ pc' = "text_style"
    /\ UNCHANGED <<content, mask_map, prefixes, calls>>
    /\ UNCHANGED mvars

\* text = self._convert_text_style(text)
ConvertTextStyle ==
    /\ pc = "text_style"
    /\ text' = _convert_text_style(text)
    /\ pc' = "headlines"
    /\ UNCHANGED <<content, mask_map, prefixes, calls>>
    /\ UNCHANGED mvars

\* text = self._convert_headlines(text)
ConvertHeadlines ==
    /\ pc = "headlines"
    /\ text' = _convert_headlines(text)
    /\ pc' = "breaklines"
    /\ UNCHANGED <<content, mask_map, prefixes, calls>>
    /\ UNCHANGED mvars

\* text = self._convert_breaklines(text)
ConvertBreaklines ==
    /\ pc = "breaklines"
    /\ text' = _convert_breaklines(text)
    /\ pc' = "convert_code"
    /\ UNCHANGED <<content, mask_map, prefixes, calls>>
    /\ UNCHANGED mvars

\* text = self._convert_code(text); an exception leaves convert() and, not
\* caught in migrate_wiki, ends the migration of the wiki
ConvertCode ==
    /\ pc = "convert_code"
    /\ LET r == _convert_code(text, mask_map)
       IN  /\ text' = r.text
           /\ pc' = IF r.raised = "" THEN "return" ELSE "raised"
    /\ UNCHANGED <<content, mask_map, prefixes, calls>>
    /\ UNCHANGED mvars

\* return text: migrate_wiki writes the MarkDown file and goes on to the next
\* page; content and the returned text are dead from here on
Return ==
    /\ pc = "return"
    /\ pc' = "idle"
    /\ content' = <<>>
    /\ text' = <<>>
    /\ UNCHANGED <<mask_map, prefixes, calls>>
    /\ UNCHANGED mvars

Next ==
    \/ \E doc \in Docs : Convert(doc)
    \/ MaskCode
    \/ ConvertMarkedLinks
    \/ ConvertInlineLinks
    \/ ConvertTextStyle
    \/ ConvertHeadlines
    \/ ConvertBreaklines
    \/ ConvertCode
    \/ Return

Spec == Init /\ [][Next]_vars

-----------------------------------------------------------------------------
(* convert() as a function of the page, the mask table it starts with and  *)
(* the prefix map: what the call returns, or the exception it raises.      *)

convert(t, mm, pfx) ==
    LET masked == _mask_code(t, mm)
        marked == _convert_marked_links(masked.text, pfx)
        inline == _convert_inline_links(marked, pfx)
        styled == _convert_text_style(inline)
        headed == _convert_headlines(styled)
        broken == _convert_breaklines(headed)
        r      == _convert_code(broken, masked.map)
    IN  IF r.raised = "" THEN [raised |-> "", text |-> r.text]
        ELSE [raised |-> r.raised, text |-> <<>>]

-----------------------------------------------------------------------------
(* The same converter on pages that hold nothing but code spans, their     *)
(* delimiters and line ends: the documents of the properties of the mask   *)
(* table.                                                                  *)

CodeFrags == {
      <<"\n">>,
      <<BT>>,
      <<BT,"x",BT>>,
      <<"{","{","{","x","}","}","}">>,
      <<"{","{","{","#","!","p","y","\n","x","}","}","}">>
    }

RECURSIVE CodeDocsOf(_)
CodeDocsOf(n) ==
    IF n = 0 THEN {<<>>}
    ELSE {d \o f : d \in CodeDocsOf(n - 1), f \in CodeFrags}

CodeDocs == UNION {CodeDocsOf(n) : n \in 0..MaxFrags}

NextCode ==
    \/ \E doc \in CodeDocs : Convert(doc)
    \/ MaskCode
    \/ ConvertMarkedLinks
    \/ ConvertInlineLinks
    \/ ConvertTextStyle
    \/ ConvertHeadlines
    \/ ConvertBreaklines
    \/ ConvertCode
    \/ Return

\* a converter constructed without a prefix map (WikiConverter())
InitCode == Init /\ prefixes = <<>>

SpecCode == InitCode /\ [][NextCode]_vars

-----------------------------------------------------------------------------
(* The same converter on pages made of links: inline links, escaped or     *)
(* not, marked links with and without a display name, and macros.          *)

\* the documents of at most n fragments out of F
RECURSIVE DocsFrom(_, _)
DocsFrom(F, n) ==
    IF n = 0 THEN {<<>>}
    ELSE DocsFrom(F, n - 1) \cup {d \o f : d \in DocsFrom(F, n - 1), f \in F}

LinkFrags == {
      <<"x">>,
      <<"!">>,
      <<"A","b","C","d">>,
      <<"o",":","A","b","C","d">>,
      <<"t","i","c","k","e","t",":","1">>,
      <<"[","A","b","C","d"," ","x","]">>,
      <<"[","o",":","A","b","C","d"," ","x","]">>,
      <<"[","x"," ","y","]">>,
      <<"[","[","I","m","a","g","e","(","x",")","]","]">>,
      <<"[","[","I","m","a","g","e","(","x",")"," ","y","]","]">>,
      <<"[","[","T","o","c","(","x",")","]","]">>,
      <<"[","[","T","o","c","(","o",":","A","b","C","d",")","]","]">>
    }

LinkDocs == DocsFrom(LinkFrags, MaxFrags)

NextLinks ==
    \/ \E doc \in LinkDocs : Convert(doc)
    \/ MaskCode
    \/ ConvertMarkedLinks
    \/ ConvertInlineLinks
    \/ ConvertTextStyle
    \/ ConvertHeadlines
    \/ ConvertBreaklines
    \/ ConvertCode
    \/ Return

SpecLinks == Init /\ [][NextLinks]_vars

-----------------------------------------------------------------------------
(* Masking followed immediately by unmasking: text = c._mask_code(text),   *)
(* then c._convert_code(text), on one converter, for texts that consist of *)
(* code spans only.                                                        *)

RoundTripFrags == {
      <<BT,"x",BT>>,
      <<"{","{","{","x","}","}","}">>,
      <<"{","{","{","#","!","p","y","\n","x","}","}","}">>,
      <<BT,"{","{","{","x","}","}","}",BT>>,
      <<"{","{","{",BT,"x",BT,"}","}","}">>
    }

RoundTripDocs == DocsFrom(RoundTripFrags, MaxFrags)

\* a text of code spans is handed to the Masking Stage
StartRoundTrip(doc) ==
    /\ pc = "idle"
    /\ calls < MaxCalls
    /\ content' = doc
    /\ text' = doc
    /\ calls' = calls + 1
    /\ pc' = "round_trip"
    /\ UNCHANGED <<mask_map, prefixes>>
    /\ UNCHANGED mvars

\* text = self._mask_code(text), with self._convert_code(text) next
MaskOnly ==
    /\ pc = "round_trip"
    /\ LET r == _mask_code(text, mask_map)
       IN  /\ text' = r.text
           /\ mask_map' = r.map
    /\ pc' = "convert_code"
    /\ UNCHANGED <<content, prefixes, calls>>
    /\ UNCHANGED mvars

NextRoundTrip ==
    \/ \E doc \in RoundTripDocs : StartRoundTrip(doc)
    \/ MaskOnly
    \/ ConvertCode
    \/ Return

SpecRoundTrip == InitCode /\ [][NextRoundTrip]_vars

-----------------------------------------------------------------------------
(* The same converter on pages whose code spans lie inside one another (a  *)
(* fenced block inside backticks, backticks inside a fenced block), next   *)
(* to a word, a named link and an italic span.                             *)

NestedFrags == {
      <<"x">>,
      <<"[","A","b","C","d"," ","x","]">>,
      <<"'","'","x","'","'">>,
      <<BT,"{","{","{","x","}","}","}",BT>>,
      <<"{","{","{",BT,"x",BT,"}","}","}">>
    }

NestedDocs == DocsFrom(NestedFrags, MaxFrags)

NextNested ==
    \/ \E doc \in NestedDocs : Convert(doc)
    \/ MaskCode
    \/ ConvertMarkedLinks
    \/ ConvertInlineLinks
    \/ ConvertTextStyle
    \/ ConvertHeadlines
    \/ ConvertBreaklines
    \/ ConvertCode
    \/ Return

SpecNested == InitCode /\ [][NextNested]_vars

-----------------------------------------------------------------------------
(* The same converter on pages of plain words and of single characters     *)
(* that are part of a markup trigger without being one: a lone backslash,  *)
(* quote, brace or percent sign, '=' and '#', one capitalized word, a link *)
(* type with nothing after it.                                             *)

PlainFrags == {
      <<"x">>,
      <<" ">>,
      <<"\n">>,
      <<"!">>,
      <<"\\">>,
      <<"'">>,
      <<"=">>,
      <<"T","x">>,
      <<"w","i","k","i",":">>,
      <<"#">>,
      <<"%">>,
      <<"{">>
    }

PlainDocs == DocsFrom(PlainFrags, MaxFrags)

NextPlain ==
    \/ \E doc \in PlainDocs : Convert(doc)
    \/ MaskCode
    \/ ConvertMarkedLinks
    \/ ConvertInlineLinks
    \/ ConvertTextStyle
    \/ ConvertHeadlines
    \/ ConvertBreaklines
    \/ ConvertCode
    \/ Return

SpecPlain == Init /\ [][NextPlain]_vars

-----------------------------------------------------------------------------
(* migrate_tickets of script/migrate.py against a GitHub repository        *)
(* (github_repo is given: no dry run).  GitHub numbers the issues of a     *)
(* repository 1, 2, 3, ... in the order of their creation: issues[n] is    *)
(* issue number n.  The tickets of the model have an empty change log, so  *)
(* no comment is converted and no issue state is set.                      *)

\* the highest ticket number of the Trac environment
MaxTicket == 4

\* Trac.listTickets: the ticket numbers, sorted
RECURSIVE listTickets(_)
listTickets(S) ==
    IF S = {} THEN <<>> ELSE <<MinOf(S)>> \o listTickets(S \ {MinOf(S)})

\* Trac.getTicket: ticket.get answers with the id it was asked for
getTicket(ticket_id) == [ticket_id |-> ticket_id]

\* an issue that is in the repository before the migration
ExistingIssue == [kind |-> "existing", trac |-> 0, state |-> "open"]

\* _create_fake_tickets: a closed issue for each idx in range(start, end)
_create_fake_tickets(github, start, end) ==
    IF end > start
    THEN github \o [i \in 1..(end - start) |->
                      [kind |-> "dummy", trac |-> start + i - 1, state |-> "closed"]]
    ELSE github

\* github_repo.get_issue(number) finds the issue
get_issue(github, number) == number \in 1..Len(github)

\* what GitHub answers to create_issue: the issue, or a GithubException whose
\* data names the abuse rate limit, names no documentation_url, or names
\* another documentation_url
Responses == {"created", "abuse", "no_url", "other"}

\* do_migrate calls migrate_tickets
InitTickets ==
    /\ pc = "idle"
    /\ content = <<>>
    /\ text = <<>>
    /\ mask_map = <<>>
    /\ prefixes = <<>>
    /\ calls = 0
    /\ mig_pc = "start"
    /\ trac_tickets \in SUBSET (1..MaxTicket)
    /\ flags \in [force : BOOLEAN, continue_mode : BOOLEAN]
    /\ issues \in {<<>>, <<ExistingIssue>>}
    /\ todo = <<>>
    /\ ticket_number = 0
    /\ ticket_count = 0
    /\ response = ""
    /\ error = ""

\* the head of migrate_tickets: return if the repository has issues and
\* neither --force-tickets nor --continue-tickets is given; else list the
\* tickets and set ticket_count = 1
StartTickets ==
    /\ mig_pc = "start"
    /\ IF Len(issues) > 0 /\ ~flags.force /\ ~flags.continue_mode
       THEN /\ mig_pc' = "skipped"
            /\ UNCHANGED <<todo, ticket_count>>
       ELSE /\ mig_pc' = "loop"
            /\ todo' = listTickets(trac_tickets)
            /\ ticket_count' = 1
    /\ UNCHANGED <<trac_tickets, flags, ticket_number, issues, response, error>>
    /\ UNCHANGED wvars

\* one pass of the for loop up to the while loop: the continue-mode test,
\* getTicket, the dummy issues and the issue text
NextTicket ==
    /\ mig_pc = "loop"
    /\ todo # <<>>
    /\ ticket_number' = Head(todo)
    /\ todo' = Tail(todo)
    /\ response' = ""
    /\ IF flags.continue_mode /\ get_issue(issues, Head(todo))
       THEN /\ mig_pc' = "loop"
            /\ UNCHANGED issues
       ELSE LET ticket == getTicket(Head(todo))
            IN  /\ issues' = IF ticket.ticket_id > Head(todo)
                             THEN _create_fake_tickets(issues, ticket_count,
                                                       ticket.ticket_id)
                             ELSE issues
                /\ mig_pc' = "create"
    /\ UNCHANGED <<trac_tickets, flags, ticket_count, error>>
    /\ UNCHANGED wvars

\* one pass of the while loop: create_issue returns the issue, or raises a
\* GithubException.  For the abuse rate limit, and for data without a
\* documentation_url, the handler builds its log message with
\* '... {min.1f} minutes'.format(min=...), which raises AttributeError (a
\* float has no attribute '1f') before time.sleep is reached; any other
\* GithubException is raised again
CreateIssue(answer) ==
    /\ mig_pc = "create"
    /\ response' = answer
    /\ IF answer = "created"
       THEN /\ issues' = Append(issues, [kind |-> "ticket", trac |-> ticket_number,
                                         state |-> "open"])
            /\ mig_pc' = "loop"
            /\ UNCHANGED error
       ELSE /\ mig_pc' = "raised"
            /\ error' = IF answer \in {"abuse", "no_url"} THEN "AttributeError"
                        ELSE "GithubException"
            /\ UNCHANGED issues
    /\ UNCHANGED <<trac_tickets, flags, todo, ticket_number, ticket_count>>
    /\ UNCHANGED wvars

\* the for loop has visited every ticket: migrate_tickets returns
EndTickets ==
    /\ mig_pc = "loop"
    /\ todo = <<>>
    /\ mig_pc' = "done"
    /\ UNCHANGED <<trac_tickets, flags, todo, ticket_number, ticket_count,
                   issues, response, error>>
    /\ UNCHANGED wvars

NextTickets ==
    \/ StartTickets
    \/ NextTicket
    \/ \E answer \in Responses : CreateIssue(answer)
    \/ EndTickets

SpecTickets == InitTickets /\ [][NextTickets]_vars

-----------------------------------------------------------------------------
(* Notions the properties below are stated in.                             *)

\* the number of indices of t where the word w stands
Occurrences(t, w) == Cardinality({p \in 1..Len(t) : StartsWith(t, p, w)})

\* the ids of the placeholder tokens of t
TokenIds(t) ==
    {_re_code_placeholder(t, s).hash :
        s \in {p \in 1..Len(t) : _re_code_placeholder(t, p).ok}}

\* t consists of letters and blanks that trigger no stage
PlainText(t) == \A i \in 1..Len(t) : t[i] \in {"x", " "}

\* the number of matches re.sub finds for _re_codeblock in t from pos
RECURSIVE CountCodeblocks(_, _)
CountCodeblocks(t, pos) ==
    LET p == NextMatch({i \in pos..Len(t) : _re_codeblock(t, i).ok})
    IN  IF p = 0 THEN 0 ELSE 1 + CountCodeblocks(t, _re_codeblock(t, p).end)

\* the number of matches re.sub finds for _re_code in t from pos
RECURSIVE CountCodes(_, _)
CountCodes(t, pos) ==
    LET p == NextMatch({i \in pos..Len(t) : _re_code(t, i).ok})
    IN  IF p = 0 THEN 0 ELSE 1 + CountCodes(t, _re_code(t, p).end)

\* the number of code spans _mask_code masks in t: the fenced blocks of t and
\* the inline spans of what the first pass leaves
MaskedOccurrences(t, mm) ==
    CountCodeblocks(t, 1) + CountCodes(SubCodeblock(t, 1, <<>>, mm).text, 1)

\* the line-break macro in double-bracket form
BrMacro == <<"[", "[", "b", "r", "]", "]">>

\* t with surrounding whitespace removed
RECURSIVE Trim(_)
Trim(t) ==
    IF t # <<>> /\ Head(t) \in SpaceChar THEN Trim(Tail(t))
    ELSE IF t # <<>> /\ t[Len(t)] \in SpaceChar THEN Trim(SubSeq(t, 1, Len(t) - 1))
    ELSE t

-----------------------------------------------------------------------------
(* C1.  The mask table is empty whenever no conversion is in progress: what *)
(* the Masking Stage adds during a conversion, the Unmasking Stage of that  *)
(* conversion removes.                                                      *)
C1_MaskTableEmptyWhenIdle ==
    pc = "idle" => DOMAIN mask_map = {}

(* C2.  Unmasking a text whose placeholder tokens all carry ids that are    *)
(* not keys of the mask table leaves the text unchanged, and convert()      *)
(* goes on to return: no error is raised.                                   *)
C2_UnknownPlaceholderPassesThrough ==
    [][(pc = "convert_code" /\ TokenIds(text) \cap DOMAIN mask_map = {})
          => (pc' = "return" /\ text' = text)]_vars

(* C3.  Masking never overwrites an entry of the mask table and stores      *)
(* every masked occurrence under a key of its own: the entries present      *)
(* before _mask_code are the same after it, and the table grows by exactly  *)
(* the number of code spans masked.  Two fenced blocks with the same        *)
(* content are each restored to their code by the conversion.               *)
TwoEqualBlocks == <<"{","{","{","x","}","}","}", "{","{","{","x","}","}","}">>

TwoRestoredBlocks == <<BT,BT,BT,"x",BT,BT,BT, BT,BT,BT,"x",BT,BT,BT>>

C4_PlaceholdersReachUnmasking ==
    [][(pc \in {"marked_links", "inline_links", "text_style", "headlines",
                "breaklines"}) =>
         (\A id \in DOMAIN mask_map :
             Occurrences(text', Placeholder(id))
                >= Occurrences(text, Placeholder(id)))]_vars

(* C5.  Inline Link resolution outputs resolvedPrefix + linkType + '/' +    *)
(* name: a text that is one unescaped inline link becomes the prefix of its *)
(* target (empty without a target or without an entry of the prefix map),  *)
(* its link type ('wiki' when untyped), '/' and its name.                   *)
ResolvedLink(groups, pfx) ==
    (IF groups.target = None THEN <<>> ELSE DictGet(pfx, groups.target[1], <<>>))
    \o (IF groups.linktype = None THEN <<"w","i","k","i">> ELSE groups.linktype[1])
    \o <<"/">> \o groups.name[1]

C5_InlineLinkResolution ==
    [][(/\ pc = "inline_links"
        /\ _re_inline_links(text, 1).ok
        /\ _re_inline_links(text, 1).end = Len(text) + 1)
          => text' = ResolvedLink(_re_inline_links(text, 1).groups, prefixes)]_vars

(* C6.  A marked link with no macro and no display name is emitted as the   *)
(* Inline Link resolution of its target, with no bracket or parenthesis     *)
(* wrapper and no label text: a text that is one such link becomes the      *)
(* inline-link conversion of the link target.  (The break macro [[br]],     *)
(* which the pattern of the marked links matches as well, is C7's.)         *)
C6_BareMarkedLinkUnwrapped ==
    [][(/\ pc = "marked_links"
        /\ text # BrMacro
        /\ _re_marked_links(text, 1).ok
        /\ _re_marked_links(text, 1).end = Len(text) + 1
        /\ _re_marked_links(text, 1).groups.macro = None
        /\ _re_marked_links(text, 1).groups.name = None)
          => text' = _convert_inline_links(
                        _re_marked_links(text, 1).groups.link[1], prefixes)]_vars

(* C7.  Through the whole of convert() an unescaped [[br]] becomes a blank  *)
(* line, as the double backslash does: a document that is [[br]] followed   *)
(* by plain text is returned as two newlines followed by that text.         *)
C7_BrMacroBecomesBlankLine ==
    (/\ pc = "return"
     /\ StartsWith(content, 1, BrMacro)
     /\ PlainText(Slice(content, 7, Len(content) + 1)))
       => text = <<NL, NL>> \o Slice(content, 7, Len(content) + 1)

(* C8.  The Breakline Stage replaces only the break marker: the output is   *)
(* the input with each matched marker replaced by the blank line, and every *)
(* other character, the one before the marker included, kept in place.     *)
(* (Stated for the texts without three backslashes in a row, where it is    *)
(* plain which two characters are the marker.)                              *)
RECURSIVE MarkersReplaced(_, _, _)
MarkersReplaced(t, pos, out) ==
    LET p == NextMatch({i \in pos..Len(t) : _re_breaklines(t, i).ok})
        m == _re_breaklines(t, p)
        \* where the marker of the match starts
        k == IF BreakMarkerLen(t, p + 1) > 0 /\ At(t, p) # "!" THEN p + 1 ELSE p
    IN  IF p = 0 THEN out \o Slice(t, pos, Len(t) + 1)
        ELSE MarkersReplaced(t, m.end, out \o Slice(t, pos, k) \o <<NL, NL>>)

C8_BreaklineReplacesOnlyMarker ==
    [][(pc = "breaklines" /\ Occurrences(text, <<BS, BS, BS>>) = 0)
          => text' = MarkersReplaced(text, 1, <<>>)]_vars

(* C9.  The Heading Stage renders a heading from its trimmed title: a text  *)
(* that is one heading becomes, at level 1, the trimmed title, a newline    *)
(* and as many '=' as the trimmed title is long; at level 2 the same with   *)
(* '-'; at level n >= 3, n '#', one space and the trimmed title.            *)
RenderedHeading(level, title) ==
    IF level = 1 THEN title \o <<NL>> \o Repeat("=", Len(title))
    ELSE IF level = 2 THEN title \o <<NL>> \o Repeat("-", Len(title))
    ELSE Repeat("#", level) \o <<" ">> \o title

C9_HeadingFromTrimmedTitle ==
    [][(/\ pc = "headlines"
        /\ _re_headlines(text, 1).ok
        /\ _re_headlines(text, 1).end = Len(text) + 1)
          => text' = RenderedHeading(_re_headlines(text, 1).level,
                                     Trim(_re_headlines(text, 1).title))]_vars

(* C10.  The Style Stage leaves a span delimited by quote runs of a length  *)
(* other than 2, 3 or 5 unchanged: a text that is n quotes, a body without  *)
(* quotes and n quotes again, n not in {2, 3, 5}, comes out as it went in.  *)
QuotedSpan(t, n) ==
    /\ Len(t) > 2 * n
    /\ \A i \in 1..Len(t) :
          t[i] = QT <=> (i <= n \/ i > Len(t) - n)

C10_OtherQuoteRunsUntouched ==
    [][(/\ pc = "text_style"
        /\ \E n \in (1..Len(text)) \ {2, 3, 5} : QuotedSpan(text, n))
          => text' = text]_vars

-----------------------------------------------------------------------------
(* C11.  An inline link preceded by the escape marker '!' is not resolved: *)
(* after the Link Stage the page holds the link text without the leading   *)
(* '!' and otherwise as written, with no prefix, link type or '/' put into *)
(* it.                                                                     *)

\* the inline links of LinkFrags
InlineLinkWords == {
      <<"A","b","C","d">>,
      <<"o",":","A","b","C","d">>,
      <<"t","i","c","k","e","t",":","1">>
    }

C11_EscapedInlineLinkLiteral ==
    (pc = "text_style" /\ \E l \in InlineLinkWords : content = <<"!">> \o l)
        => text = Tail(content)

-----------------------------------------------------------------------------
(* C12.  A marked link carrying the image macro leaves the marked-link     *)
(* pass as an image embed whose target is the macro argument and whose alt *)
(* text is the trailing name, or the default alt text 'image' when the     *)
(* link has no name.                                                       *)

\* ![alt](target)
ImageEmbed(alt, target) == <<"!", "[">> \o alt \o <<"]", "(">> \o target \o <<")">>

C12_ImageMacroEmbed ==
    pc = "inline_links" =>
        /\ content = <<"[","[","I","m","a","g","e","(","x",")","]","]">>
            => text = ImageEmbed(<<"i","m","a","g","e">>, <<"x">>)
        /\ content = <<"[","[","I","m","a","g","e","(","x",")"," ","y","]","]">>
            => text = ImageEmbed(<<"y">>, <<"x">>)

-----------------------------------------------------------------------------
(* C13.  A marked link whose macro is not the image macro passes through   *)
(* the Link Stage, the marked-link pass and the inline-link pass after it, *)
(* with its whole text unchanged, the macro argument included.             *)

\* the marked links of LinkFrags with the macro Toc
OtherMacroLinks == {
      <<"[","[","T","o","c","(","x",")","]","]">>,
      <<"[","[","T","o","c","(","o",":","A","b","C","d",")","]","]">>
    }

C13_UnknownMacroPassesLinkStage ==
    (pc = "text_style" /\ content \in OtherMacroLinks) => text = content

-----------------------------------------------------------------------------
(* C18.  For a marked link with a display name and no macro, convert()     *)
(* returns [name](target) whose target is the inline-link resolution of    *)
(* the extracted target, applied once: the inline-link pass over the whole *)
(* page leaves the resolved target as it is.                               *)

\* [name](target)
NamedLink(name, target) == <<"[">> \o name \o <<"]", "(">> \o target \o <<")">>

C18_NamedLinkResolvedOnce ==
    pc = "return" =>
        /\ content = <<"[","A","b","C","d"," ","x","]">>
            => text = NamedLink(<<"x">>, _convert_inline_links(<<"A","b","C","d">>, prefixes))
        /\ content = <<"[","o",":","A","b","C","d"," ","x","]">>
            => text = NamedLink(<<"x">>, _convert_inline_links(<<"o",":","A","b","C","d">>, prefixes))
        /\ content = <<"[","x"," ","y","]">>
            => text = NamedLink(<<"y">>, _convert_inline_links(<<"x">>, prefixes))

-----------------------------------------------------------------------------
(* C14.  Masking followed immediately by unmasking, on a text of code      *)
(* spans only, restores every masked span: each code body the mask table   *)
(* recorded stands in the result inside a fenced code block, tagged with   *)
(* its language hint when it has one, and no placeholder token remains;    *)
(* also when a fenced block lies inside backticks.                         *)

\* the fenced code block of a mask table entry
Fenced(e) ==
    IF e.shebang = None
    THEN <<BT, BT, BT>> \o e.code \o <<BT, BT, BT>>
    ELSE <<BT, BT, BT>> \o e.shebang[1] \o <<NL>> \o e.code \o <<NL, BT, BT, BT>>

C14_RoundTripRestoresCode ==
    /\ pc # "raised"
    /\ (pc = "return" /\ calls = 1) =>
          /\ TokenIds(text) = {}
          /\ \A id \in DOMAIN mask_map :
                Occurrences(text, Fenced(mask_map[id])) >= 1

-----------------------------------------------------------------------------
(* C15.  convert() calls are independent: whatever calls the converter has *)
(* served before, convert(x) returns the text, or fails in the way, that   *)
(* a converter just constructed with the same prefix map does.             *)

\* what the call in progress has returned or raised
Outcome ==
    IF pc = "raised" THEN [raised |-> "IndexError", text |-> <<>>]
    ELSE [raised |-> "", text |-> text]

C15_CallsIndependent ==
    pc \in {"return", "raised"} => Outcome = convert(content, <<>>, prefixes)

-----------------------------------------------------------------------------
(* C16.  Every convert() call runs the stages once each in the fixed order *)
(* Masking (fenced blocks, then inline spans), marked links, inline links, *)
(* Style, Heading, Breakline, Unmasking: a stage starts from the whole     *)
(* text the stage before it has produced, and only Masking writes the mask *)
(* table.                                                                  *)

\* the stage that follows each stage of a call
StageAfter == [
    idle         |-> {"mask_code"},
    mask_code    |-> {"marked_links"},
    marked_links |-> {"inline_links"},
    inline_links |-> {"text_style"},
    text_style   |-> {"headlines"},
    headlines    |-> {"breaklines"},
    breaklines   |-> {"convert_code"},
    convert_code |-> {"return", "raised"},
    return       |-> {"idle"},
    raised       |-> {}
  ]

\* backticks inside a fenced block
BackticksInBlock == <<"{","{","{",BT,"x",BT,"}","}","}">>

C16_StagesInFixedOrder ==
    [][/\ pc' # pc => pc' \in StageAfter[pc]
       /\ mask_map' # mask_map => pc = "mask_code"
       /\ pc = "marked_links" => text' = _convert_marked_links(text, prefixes)
       /\ pc = "inline_links" => text' = _convert_inline_links(text, prefixes)
       /\ pc = "text_style"   => text' = _convert_text_style(text)
       /\ pc = "headlines"    => text' = _convert_headlines(text)
       /\ pc = "breaklines"   => text' = _convert_breaklines(text)
       /\ (pc = "mask_code" /\ content = BackticksInBlock) =>
             \E id \in DOMAIN mask_map' \ DOMAIN mask_map :
                /\ DOMAIN mask_map' = DOMAIN mask_map \cup {id}
                /\ mask_map'[id].code = <<BT,"x",BT>>
                /\ text' = Placeholder(id)
      ]_vars

C16_Witness ==
    /\ pc = "return"
    /\ content = BackticksInBlock
    /\ text = <<BT, BT, BT>> \o <<BT,"x",BT>> \o <<BT, BT, BT>>
    /\ \E id \in DOMAIN mask_map : mask_map[id].code = <<BT,"x",BT>>

-----------------------------------------------------------------------------
(* C17.  A text that holds no markup trigger of any stage (no code         *)
(* delimiter, bracket link, typed or multi-segment capitalized link word,  *)
(* quote run, heading line, break marker or placeholder token) is returned *)
(* by convert() as it is.                                                  *)

\* t holds no markup trigger
NoTrigger(t) ==
    /\ Occurrences(t, <<BT>>) = 0
    /\ Occurrences(t, <<"{", "{", "{">>) = 0
    /\ Occurrences(t, <<"}", "}", "}">>) = 0
    /\ Occurrences(t, <<"[">>) = 0
    /\ \A p \in 1..Len(t) : ~_re_inline_links(t, p).ok
    /\ Occurrences(t, <<QT, QT>>) = 0
    /\ \A p \in 1..Len(t) : AtLineStart(t, p) => t[p] # "="
    /\ Occurrences(t, <<BS, BS>>) = 0
    /\ Occurrences(t, Repeat("%", 8) \o <<"{">>) = 0

-----------------------------------------------------------------------------
(* C19.  When migrate_tickets runs against a repository that has no issues *)
(* yet, closed dummy issues are created for the ticket numbers missing     *)
(* from Trac's sorted ticket list, so that each migrated Trac ticket n is  *)
(* GitHub issue number n.                                                  *)

C19_TicketNumbersKept ==
    (mig_pc = "done" /\ \A i \in 1..Len(issues) : issues[i].kind # "existing") =>
        /\ \A n \in trac_tickets :
              /\ n \in 1..Len(issues)
              /\ issues[n].kind = "ticket"
              /\ issues[n].trac = n
        /\ \A n \in 1..Len(issues) :
              n \notin trac_tickets =>
                  issues[n].kind = "dummy" /\ issues[n].state = "closed"

-----------------------------------------------------------------------------
(* C20.  When create_issue raises a GithubException for the abuse rate     *)
(* limit, migrate_tickets waits and calls create_issue again: it stays in  *)
(* its retry loop and the exception does not leave the function.  A        *)
(* GithubException with another documentation_url is raised again without  *)
(* a retry.                                                                *)

C20_AbuseLimitRetried ==
    /\ response = "abuse" => (mig_pc = "create" /\ error = "")
    /\ response = "other" => (mig_pc = "raised" /\ error = "GithubException")

====
